---- MODULE Spec2Model ----
(***************************************************************************)
(* Chat2SVG stage 1 (template generation): the generate-refine-select      *)
(* pipeline as run by its three entry points                               *)
(*   main.main                         (CLI,        entry "main")          *)
(*   TemplateGenerator.generate        (library,    entry "lib")           *)
(*   handler / SVGGenerator.generate_svg (serverless, entry "handler")     *)
(* One process executes runs one after the other.  The CLI and the library *)
(* write into a persistent output folder; the serverless handler works in  *)
(* a temporary directory that is created and removed by every run.         *)
(***************************************************************************)
EXTENDS Integers, Sequences, FiniteSets, TLC

(***************************************************************************)
(* Bounds of the model.                                                    *)
(***************************************************************************)
MaxRefine == 2
SimLevels == 2
MaxInvocations == 3
MaxSessions == 3
MaxOrderIndex == 10

Entries == {"main", "lib", "handler"}
Targets == {"cat"}
RewardNames == {"ImageReward", "CLIP", "Other"}
Models == {"claude-3-5-sonnet-20240620", "gpt-4o"}
DefaultModel == "claude-3-5-sonnet-20240620"
PromptsFiles == {"prompts", "prompts_v2"}
DefaultPromptsFile == "prompts"
RefineIters == (0 - 1)..MaxRefine
Indices == 0..MaxRefine
Names == Targets \X Indices

(***************************************************************************)
(* File names.  A log file of candidate i is "<target>_<i>.png"; glob      *)
(* results are ordered by sorted(), i.e. by comparing the names character  *)
(* by character.  Names are modelled as sequences of character codes.      *)
(***************************************************************************)
TargetCodes(t) ==
    CASE t = "cat" -> <<99, 97, 116>>
      [] t = "dog" -> <<100, 111, 103>>
      [] OTHER -> <<103>>

RECURSIVE Decimal(_)
Decimal(n) == IF n < 10 THEN <<48 + n>> ELSE Decimal(n \div 10) \o <<48 + (n % 10)>>

PngName(nm) == TargetCodes(nm[1]) \o <<95>> \o Decimal(nm[2]) \o <<46, 112, 110, 103>>

RECURSIVE StrLess(_, _)
StrLess(a, b) ==
    IF b = <<>> THEN FALSE
    ELSE IF a = <<>> THEN TRUE
    ELSE IF Head(a) # Head(b) THEN Head(a) < Head(b)
    ELSE StrLess(Tail(a), Tail(b))

RECURSIVE Sorted(_)
Sorted(S) ==
    IF S = {} THEN <<>>
    ELSE LET m == CHOOSE x \in S : \A y \in S \ {x} : StrLess(PngName(x), PngName(y))
         IN  <<m>> \o Sorted(S \ {m})

(***************************************************************************)
(* Directories.  A log file is "none" (absent), "cur" (written by the run  *)
(* in progress) or "old" (left by an earlier run).  The canonical output   *)
(* <root_dir>/<target>_template.svg holds the code of one candidate.       *)
(***************************************************************************)
Gens == {"none", "old", "cur"}
NoTemplate == [gen |-> "none", idx |-> 0]
EmptyDir == [png |-> [nm \in Names |-> "none"], svg |-> [nm \in Names |-> "none"]]
EmptyOut == [png |-> [nm \in Names |-> "none"], svg |-> [nm \in Names |-> "none"],
             template |-> [t \in Targets |-> NoTemplate]]

AgeGen(g) == IF g = "cur" THEN "old" ELSE g
Age(d) == [png |-> [nm \in Names |-> AgeGen(d.png[nm])],
           svg |-> [nm \in Names |-> AgeGen(d.svg[nm])],
           template |-> [t \in Targets |->
                IF d.template[t].gen = "none" THEN NoTemplate
                ELSE [gen |-> "old", idx |-> 0]]]

Glob(pngs) == {nm \in Names : pngs[nm] # "none"}

VARIABLES
    pc,        \* position of the run in progress
    cfg,       \* configuration of the run in progress
    i,         \* index of the candidate being produced
    png_path,  \* the local variable png_path (sequence of at most one name)
    calls,     \* session.send calls of the run, in order
    cands,     \* candidates stored by the run, in order
    scored,    \* the scorer invocation of the run
    result,    \* what the run reported
    out,       \* persistent output folder (CLI, library)
    tmp,       \* temporary directory (serverless handler)
    session,   \* generator.session of handler.py
    reward_model,       \* generator.reward_model: 0 (None) or the number of the load it comes from
    reward_model_name,  \* generator.reward_model_name
    loads,     \* the model loads of the process, in order
    invoked,   \* the scoring invocations of the process, in order
    generator, \* the module-level generator as concurrent handler calls share it
    thr,       \* the concurrent handler calls
    prev,      \* what the previous run was given and did, for comparing runs
    fn_input,  \* argument of a function taken on its own
    fn_output  \* what that function gave

scorerVars == <<reward_model, reward_model_name, loads, invoked>>
concVars == <<generator, thr>>
auxVars == <<prev, fn_input, fn_output>>
runVars == <<pc, cfg, i, png_path, calls, cands, scored, result, out, tmp, session>>

NoCfg == [entry |-> "none", target |-> "cat", refine_iter |-> 0, reward_model |-> "ImageReward",
          model |-> DefaultModel, has_prompt |-> TRUE, prompts_file |-> DefaultPromptsFile]
NoSession == [model |-> "none", gen |-> "none", prompts_file |-> "none"]

\* Concurrent calls of handler(): the callers, and the one generator they
\* share.  A session is identified by the number of its creation.
Threads == {1, 2}
NoGenerator ==
    [session |-> [id |-> 0, model |-> "none"], sessions |-> 0,
     reward_model |-> "none", reward_model_name |-> "none"]
IdleThread ==
    [pc |-> "idle", model |-> "none", reward_model |-> "none", sent |-> {},
     scored_with |-> "none", success |-> FALSE]
NoThreads == [t \in Threads |-> IdleThread]
NoPrev == [entry |-> "none"]
NoInput == [kind |-> "none"]
NoOutput == [done |-> FALSE]
vars == <<runVars, scorerVars, concVars, auxVars>>
NoScore == [called |-> FALSE, variant |-> "none", images |-> <<>>, output |-> <<>>, best |-> 0 - 1]
NoResult == [status |-> "none", error |-> "none", best_index |-> 0 - 1,
             best_svg |-> NoTemplate, best_png |-> NoTemplate,
             wrote_template |-> FALSE, total |-> 0 - 1, returned |-> FALSE]

\* The CLI and the library always have a prompt; an event of the serverless
\* handler may name any model, and may lack the prompt: handler() then reads
\* no other field of it.
Requests ==
    [entry : {"main", "lib"}, target : Targets, refine_iter : RefineIters,
     reward_model : RewardNames, model : {DefaultModel}, has_prompt : {TRUE},
     prompts_file : {DefaultPromptsFile}]
    \cup
    [entry : {"handler"}, target : Targets, refine_iter : RefineIters,
     reward_model : RewardNames, model : Models, has_prompt : {TRUE},
     prompts_file : {DefaultPromptsFile}]
    \cup
    {[NoCfg EXCEPT !.entry = "handler", !.has_prompt = FALSE]}

InitProcess ==
    /\ pc = "idle"
    /\ cfg = NoCfg
    /\ i = 0
    /\ png_path = <<>>
    /\ calls = <<>>
    /\ cands = <<>>
    /\ scored = NoScore
    /\ result = NoResult
    /\ out = EmptyOut
    /\ tmp = EmptyDir
    /\ session = NoSession
    /\ reward_model = 0
    /\ reward_model_name = "none"
    /\ loads = <<>>
    /\ invoked = <<>>
    /\ generator = NoGenerator
    /\ thr = NoThreads
    /\ prev = NoPrev

Init ==
    /\ InitProcess
    /\ fn_input = NoInput
    /\ fn_output = NoOutput

(***************************************************************************)
(* The scorers.  The rank-based model returns an ordering of the supplied  *)
(* images (1-based positions, best first); the similarity-based model      *)
(* yields one similarity per supplied image.                               *)
(***************************************************************************)
Orderings(n) == {r \in [1..n -> 1..n] : \A a, b \in 1..n : a # b => r[a] # r[b]}
Similarities(n) == [1..n -> 1..SimLevels]
ScorerOutputs(variant, n) == IF variant = "ImageReward" THEN Orderings(n) ELSE Similarities(n)

RankBestNoShift(ranking) == ranking[1]
RankBest(ranking) == ranking[1] - 1

RECURSIVE ArgMaxFrom(_, _, _)
ArgMaxFrom(sim, k, best) ==
    IF k > Len(sim) THEN best - 1
    ELSE ArgMaxFrom(sim, k + 1, IF sim[k] > sim[best] THEN k ELSE best)
RECURSIVE ArgMaxLastFrom(_, _, _)
ArgMaxLastFrom(sim, k, best) ==
    IF k > Len(sim) THEN best - 1
    ELSE ArgMaxLastFrom(sim, k + 1, IF sim[k] >= sim[best] THEN k ELSE best)
ArgMaxLast(sim) == ArgMaxLastFrom(sim, 1, 1)
ArgMax(sim) == ArgMaxFrom(sim, 1, 1)

BestIndex(variant, output) ==
    IF variant = "ImageReward" THEN RankBest(output) ELSE ArgMax(output)

(***************************************************************************)
(* Helpers of the pipeline.                                                *)
(***************************************************************************)
WorkDir == IF cfg.entry = "handler" THEN tmp ELSE out
SvgExists(d, t, b) == b \in Indices /\ d.svg[<<t, b>>] # "none"
PngExists(d, t, b) == b \in Indices /\ d.png[<<t, b>>] # "none"
Content(d, t, b) == [gen |-> d.svg[<<t, b>>], idx |-> b]
Render(d, t, b) == [gen |-> d.png[<<t, b>>], idx |-> b]

\* A session.send call: its task, its reference images, what the files named
\* hold when it is sent, and how many candidates have been saved before it.
\* The session a run sends on: main() and _execute_generation create their
\* own, generate_svg uses the generator's.
SessionInUse ==
    IF cfg.entry = "handler" THEN session
    ELSE [model |-> cfg.model, gen |-> "cur", prompts_file |-> cfg.prompts_file]
Seen(images) == [k \in 1..Len(images) |-> WorkDir.png[images[k]]]
Call(task, images) ==
    [task |-> task, images |-> images, seen |-> Seen(images), stored |-> Len(cands),
     ok |-> TRUE, model |-> SessionInUse.model, gen |-> SessionInUse.gen]

\* How a run ends.  Failed is an exception leaving the entry point; the
\* handler returns a response instead: its explicit error returns, and its
\* "except Exception" around everything else.
Failed(err) == [NoResult EXCEPT !.status = "failed", !.error = err]
ErrorResponse(err) == [Failed(err) EXCEPT !.returned = TRUE]
HandlerNoExcept(r) == r
HandlerExcept(r) == IF r.status = "failed" THEN [r EXCEPT !.returned = TRUE] ELSE r
Outcome(c, r) == IF c.entry = "handler" THEN HandlerExcept(r) ELSE r

\* The first task of a run and the state a failed session call leaves it in.
AfterStartSkip == "generate"
AfterStart == "expand"
AfterSendErrorGoOn(next) == next
AfterSendError(next) == "failed"

\* range(1, refine_iter + 1): the loop body runs for k while k <= refine_iter.
LoopContinuesShort(k, n) == k < n
LoopContinues(k, n) == k <= n

\* png_path after candidate k of target t has been saved.
PngPathFirst(t, k) == <<<<t, 0>>>>
PngPathOf(t, k) == <<<<t, k>>>>

(***************************************************************************)
(* Start of a run.                                                         *)
(***************************************************************************)
Idle == pc \in {"idle", "done", "failed"}

\* SVGGenerator.initialize_session: the session is replaced, by
\* gpt.Session(model=model, prompts_file=prompts_file), when there is none
\* or its model differs from the requested one.  A session is "cur" when
\* the run in progress created it and "old" when an earlier run did.
AgeSession(s) == [s EXCEPT !.gen = AgeGen(@)]
NewSession(model, prompts_file) ==
    [model |-> model, gen |-> "cur", prompts_file |-> prompts_file]
initialize_session_keep(s, model, prompts_file) ==
    IF s = NoSession THEN NewSession(model, prompts_file) ELSE s
initialize_session(s, model, prompts_file) ==
    IF s = NoSession \/ s.model # model THEN NewSession(model, prompts_file) ELSE s

Begin(c) ==
    /\ cfg' = c
    /\ pc' = AfterStart
    /\ i' = 0
    /\ png_path' = <<>>
    /\ calls' = <<>>
    /\ cands' = <<>>
    /\ scored' = NoScore
    /\ result' = NoResult
    /\ out' = Age(out)
    /\ tmp' = EmptyDir
    /\ session' = IF c.entry = "handler"
                  THEN initialize_session(AgeSession(session), c.model, c.prompts_file)
                  ELSE AgeSession(session)
    /\ UNCHANGED <<scorerVars, concVars, auxVars>>

\* main.py: parse_arguments, then main() creates the session.
StartMain(c) ==
    /\ Idle
    /\ c.entry = "main"
    /\ Begin(c)

\* api_wrapper.py: TemplateGenerator.generate, then _execute_generation.
StartLib(c) ==
    /\ Idle
    /\ c.entry = "lib"
    /\ Begin(c)

\* handler.py: handler() checks reward_model, then generate_svg creates the
\* temporary directory and initializes the session.
StartHandler(c) ==
    /\ Idle
    /\ c.entry = "handler"
    /\ IF ~c.has_prompt \/ c.reward_model \notin {"ImageReward", "CLIP"}
       THEN /\ cfg' = c
            /\ pc' = "failed"
            /\ i' = 0
            /\ png_path' = <<>>
            /\ calls' = <<>>
            /\ cands' = <<>>
            /\ scored' = NoScore
            /\ result' = IF ~c.has_prompt
                         THEN ErrorResponse("Missing required parameter: prompt")
                         ELSE ErrorResponse("Invalid reward_model")
            /\ out' = Age(out)
            /\ tmp' = EmptyDir
            /\ session' = AgeSession(session)
            /\ UNCHANGED <<scorerVars, concVars, auxVars>>
       ELSE Begin(c)

(***************************************************************************)
(* session.send: returns the text of the model or raises.  An exception    *)
(* leaves generate_svg's with-block, which removes the temporary directory.*)
(***************************************************************************)
CleanTmp == IF cfg.entry = "handler" THEN EmptyDir ELSE tmp

Send(task, images, next) ==
    \E ok \in BOOLEAN :
        /\ calls' = Append(calls, [Call(task, images) EXCEPT !.ok = ok])
        /\ IF ok
           THEN /\ pc' = next
                /\ result' = result
                /\ tmp' = tmp
           ELSE /\ pc' = AfterSendError(next)
                /\ result' = Outcome(cfg, Failed("UpstreamError"))
                /\ tmp' = CleanTmp

\* Task 1: expand the text prompt.
ExpandTextPrompt ==
    /\ pc = "expand"
    /\ Send("expand_text_prompt", <<>>, "generate")
    /\ UNCHANGED <<cfg, i, png_path, cands, scored, out, session, scorerVars, concVars, auxVars>>

\* Task 2: generate the initial SVG code.
WriteSvgCode ==
    /\ pc = "generate"
    /\ Send("write_svg_code", <<>>, "store")
    /\ UNCHANGED <<cfg, i, png_path, cands, scored, out, session, scorerVars, concVars, auxVars>>

\* Task 3: one refinement request, with png_path as its reference image.
SvgRefine ==
    /\ pc = "refine"
    /\ Send("svg_refine", png_path, "store")
    /\ UNCHANGED <<cfg, i, png_path, cands, scored, out, session, scorerVars, concVars, auxVars>>

(***************************************************************************)
(* save(msg_path(i), svg_code); save_svg(cfg, svg_code, "<target>_<i>"):   *)
(* the raw response and the code are stored; the render is written unless  *)
(* rendering fails.                                                        *)
(***************************************************************************)
SaveSvg(d, nm, rendered) ==
    [d EXCEPT !.svg[nm] = "cur", !.png[nm] = IF rendered THEN "cur" ELSE @]

SaveCandidate ==
    /\ pc = "store"
    /\ \E rendered \in BOOLEAN :
        LET nm == <<cfg.target, i>> IN
        /\ cands' = Append(cands, [index |-> i, raw |-> "text", rendered |-> rendered])
        /\ IF cfg.entry = "handler"
           THEN tmp' = SaveSvg(tmp, nm, rendered) /\ out' = out
           ELSE out' = SaveSvg(out, nm, rendered) /\ tmp' = tmp
    /\ png_path' = PngPathOf(cfg.target, i)
    /\ i' = i + 1
    /\ pc' = IF LoopContinues(i + 1, cfg.refine_iter) THEN "refine" ELSE "select"
    /\ UNCHANGED <<cfg, calls, scored, result, session, scorerVars, concVars, auxVars>>

(***************************************************************************)
(* Selection.  The scorer is given sorted(glob("<png_dir>/*.png")) and the *)
(* position it yields is used as the candidate index.                      *)
(***************************************************************************)
PngFiles(d) == Sorted(Glob(d.png))

Scored(variant, png_files, o) ==
    [called |-> TRUE, variant |-> variant, images |-> png_files, output |-> o,
     best |-> IF png_files = <<>> THEN 0 - 1 ELSE BestIndex(variant, o)]

Success(best, svg, png, wrote, total) ==
    [status |-> "success", error |-> "none", best_index |-> best, best_svg |-> svg,
     best_png |-> png, wrote_template |-> wrote, total |-> total, returned |-> TRUE]

\* main.select_best_svg and TemplateGenerator._select_best_svg, after the
\* assertion on model_name: inference, then shutil.copy of the best SVG.
CopyBest(d, c, png_files, o) ==
    LET sc == Scored(c.reward_model, png_files, o) IN
    IF png_files = <<>>
    THEN [scored |-> sc, result |-> Failed("RuntimeError"), dir |-> d]
    ELSE IF ~SvgExists(d, c.target, sc.best)
    THEN [scored |-> sc, result |-> Failed("FileNotFoundError"), dir |-> d]
    ELSE [scored |-> sc,
          result |-> Success(sc.best, NoTemplate, NoTemplate, TRUE,
                             IF c.entry = "lib" THEN c.refine_iter + 1 ELSE 0 - 1),
          dir |-> [d EXCEPT !.template[c.target] = Content(d, c.target, sc.best)]]

SelectBestSvg ==
    /\ pc = "select"
    /\ cfg.entry \in {"main", "lib"}
    /\ IF cfg.reward_model \notin {"ImageReward", "CLIP"}
       THEN /\ pc' = "failed"
            /\ result' = Failed("AssertionError")
            /\ UNCHANGED <<scored, out>>
       ELSE \E o \in ScorerOutputs(cfg.reward_model, Len(PngFiles(out))) :
                LET r == CopyBest(out, cfg, PngFiles(out), o) IN
                /\ scored' = r.scored
                /\ result' = r.result
                /\ out' = r.dir
                /\ pc' = IF r.result.status = "success" THEN "done" ELSE "failed"
    /\ UNCHANGED <<cfg, i, png_path, calls, cands, tmp, session, scorerVars, concVars, auxVars>>

\* SVGGenerator.select_best_svg followed by the rest of generate_svg: the
\* best SVG and PNG are read back and the existing iterations collected.
ReadBest(d, c, png_files, o) ==
    LET sc == Scored(c.reward_model, png_files, o) IN
    IF png_files = <<>>
    THEN [scored |-> NoScore, result |-> Failed("No PNG files found for ranking")]
    ELSE IF ~SvgExists(d, c.target, sc.best) \/ ~PngExists(d, c.target, sc.best)
    THEN [scored |-> sc, result |-> Failed("FileNotFoundError")]
    ELSE [scored |-> sc,
          result |-> Success(sc.best, Content(d, c.target, sc.best),
                             Render(d, c.target, sc.best), FALSE,
                             Cardinality({k \in 0..c.refine_iter : SvgExists(d, c.target, k)}))]

GenerateSvgSelect ==
    /\ pc = "select"
    /\ cfg.entry = "handler"
    /\ \E o \in ScorerOutputs(cfg.reward_model, Len(PngFiles(tmp))) :
            LET r == ReadBest(tmp, cfg, PngFiles(tmp), o) IN
            /\ scored' = r.scored
            /\ result' = HandlerExcept(r.result)
            /\ pc' = IF r.result.status = "success" THEN "done" ELSE "failed"
    /\ tmp' = EmptyDir
    /\ UNCHANGED <<cfg, i, png_path, calls, cands, out, session, scorerVars, concVars, auxVars>>

\* No call site passes a timeout and nothing in the code bounds a call:
\* when the language model, the renderer or the scorer does not answer, the
\* run stays blocked in that call.
ExternalCall == pc \in {"expand", "generate", "refine", "store", "select"}
StalledCall ==
    /\ ExternalCall
    /\ pc' = "stalled"
    /\ UNCHANGED <<cfg, i, png_path, calls, cands, scored, result, out, tmp, session,
                   scorerVars, concVars, auxVars>>

Next ==
    \/ \E c \in Requests : StartMain(c)
    \/ \E c \in Requests : StartLib(c)
    \/ \E c \in Requests : StartHandler(c)
    \/ ExpandTextPrompt
    \/ WriteSvgCode
    \/ SvgRefine
    \/ SaveCandidate
    \/ SelectBestSvg
    \/ GenerateSvgSelect
    \/ StalledCall

Spec == Init /\ [][Next]_vars

(***************************************************************************)
(* The scorer on its own: any sequence of scoring invocations in one       *)
(* process, through the generator of handler.py (which keeps the loaded    *)
(* model) and through main.select_best_svg and                             *)
(* TemplateGenerator._select_best_svg (which load on every call).          *)
(***************************************************************************)
ValidRewardNames == {"ImageReward", "CLIP"}
Weights(name) == IF name = "ImageReward" THEN "ImageReward-v1.0" ELSE "ViT-B/32"
Load(by, name) == [by |-> by, name |-> name, weights |-> Weights(name)]

\* An invocation: who was called with which name, whether a load was
\* performed, whether loading raised, the instance that scored (0: none)
\* and the instance the generator holds afterwards.
Invocation(by, name, loaded, raised, used, holds, outcome) ==
    [by |-> by, name |-> name, loaded |-> loaded, raised |-> raised, used |-> used,
     holds |-> holds, outcome |-> outcome]

\* SVGGenerator.initialize_reward_model: load when nothing is held or the
\* held name differs; a load that raises leaves both fields as they were.
NeedsLoadWhenNone(held, held_name, name) == held = 0
NeedsLoad(held, held_name, name) == held = 0 \/ held_name # name

\* The fields after a load that raised: the assignment of the model did not
\* happen and the assignment of the name, which follows it, was not reached.
AfterFailedLoadNamed(held, held_name, name) == [model |-> held, name |-> name]
AfterFailedLoad(held, held_name, name) == [model |-> held, name |-> held_name]

initialize_reward_model(name, load_ok) ==
    IF NeedsLoad(reward_model, reward_model_name, name)
    THEN IF load_ok
         THEN [model |-> Len(loads) + 1, name |-> name,
               loads |-> Append(loads, Load("SVGGenerator", name)),
               loaded |-> TRUE, raised |-> FALSE]
         ELSE [model |-> AfterFailedLoad(reward_model, reward_model_name, name).model,
               name |-> AfterFailedLoad(reward_model, reward_model_name, name).name,
               loads |-> loads, loaded |-> FALSE, raised |-> TRUE]
    ELSE [model |-> reward_model, name |-> reward_model_name, loads |-> loads,
          loaded |-> FALSE, raised |-> FALSE]

CanInvoke == Len(invoked) < MaxInvocations

\* generator.initialize_reward_model(name), called directly.
ScorerInitialize(name, load_ok) ==
    /\ CanInvoke
    /\ LET r == initialize_reward_model(name, load_ok) IN
        /\ reward_model' = r.model
        /\ reward_model_name' = r.name
        /\ loads' = r.loads
        /\ invoked' = Append(invoked,
               Invocation("initialize_reward_model", name, r.loaded, r.raised, 0, r.model,
                          IF r.raised THEN "error" ELSE "none"))
    /\ UNCHANGED <<runVars, concVars, auxVars>>

\* generator.select_best_svg(..., name): initialize_reward_model, the check
\* for an empty png_dir, then scoring with the model held.
ScorerSelect(name, load_ok, has_png) ==
    /\ CanInvoke
    /\ LET r == initialize_reward_model(name, load_ok)
           scores == ~r.raised /\ has_png
       IN
        /\ reward_model' = r.model
        /\ reward_model_name' = r.name
        /\ loads' = r.loads
        /\ invoked' = Append(invoked,
               Invocation("SVGGenerator.select_best_svg", name, r.loaded, r.raised,
                          IF scores THEN r.model ELSE 0, r.model,
                          IF scores THEN "index" ELSE "error"))
    /\ UNCHANGED <<runVars, concVars, auxVars>>

\* main.select_best_svg / TemplateGenerator._select_best_svg: the assertion
\* on the name, then a load into a local variable on every call, then
\* scoring with it.
LibrarySelect(by, name, load_ok, has_png) ==
    /\ CanInvoke
    /\ IF name \notin ValidRewardNames
       THEN /\ loads' = loads
            /\ invoked' = Append(invoked,
                   Invocation(by, name, FALSE, FALSE, 0, reward_model, "error"))
       ELSE IF ~load_ok
       THEN /\ loads' = loads
            /\ invoked' = Append(invoked,
                   Invocation(by, name, FALSE, TRUE, 0, reward_model, "error"))
       ELSE /\ loads' = Append(loads, Load(by, name))
            /\ invoked' = Append(invoked,
                   Invocation(by, name, TRUE, FALSE, IF has_png THEN Len(loads) + 1 ELSE 0,
                              reward_model, IF has_png THEN "index" ELSE "error"))
    /\ UNCHANGED <<reward_model, reward_model_name, runVars, concVars, auxVars>>

NextScorer ==
    \/ \E name \in RewardNames, load_ok \in BOOLEAN : ScorerInitialize(name, load_ok)
    \/ \E name \in RewardNames, load_ok, has_png \in BOOLEAN :
          ScorerSelect(name, load_ok, has_png)
    \/ \E by \in {"main.select_best_svg", "TemplateGenerator._select_best_svg"},
          name \in RewardNames, load_ok, has_png \in BOOLEAN :
          LibrarySelect(by, name, load_ok, has_png)

SpecScorer == Init /\ [][NextScorer]_vars

(***************************************************************************)
(* Concurrent calls of handler().  Nothing in handler.py takes a lock and  *)
(* RunPodConfig.MAX_CONCURRENT_REQUESTS is not read anywhere: every call   *)
(* works on the fields of the one module-level generator.  A run is        *)
(* reduced to what touches them: initialize_session, the sends (each reads *)
(* self.session), initialize_reward_model, and the inference (which reads  *)
(* self.reward_model).                                                     *)
(***************************************************************************)
\* generator.generate_svg up to initialize_session (handler.py:137).
ConcStart(t, model, name) ==
    /\ thr[t].pc = "idle"
    /\ LET fresh == generator.session.id = 0 \/ generator.session.model # model IN
        /\ fresh => generator.sessions < MaxSessions
        /\ generator' =
              IF fresh
              THEN [generator EXCEPT !.session = [id |-> generator.sessions + 1, model |-> model],
                                     !.sessions = @ + 1]
              ELSE generator
    /\ thr' = [thr EXCEPT ![t] = [IdleThread EXCEPT !.pc = "expand", !.model = model,
                                                    !.reward_model = name]]
    /\ UNCHANGED <<runVars, scorerVars, auxVars>>

\* self.session.send(...): on whatever session the generator holds now.
ConcSend(t) ==
    /\ thr[t].pc \in {"expand", "generate"}
    /\ thr' = [thr EXCEPT ![t].sent = @ \cup {generator.session.id},
                          ![t].pc = IF @ = "expand" THEN "generate" ELSE "select"]
    /\ UNCHANGED <<generator, runVars, scorerVars, auxVars>>

\* self.initialize_reward_model(model_name) at the start of select_best_svg.
ConcInitializeRewardModel(t) ==
    /\ thr[t].pc = "select"
    /\ generator' =
          IF generator.reward_model = "none" \/ generator.reward_model_name # thr[t].reward_model
          THEN [generator EXCEPT !.reward_model = Weights(thr[t].reward_model),
                                 !.reward_model_name = thr[t].reward_model]
          ELSE generator
    /\ thr' = [thr EXCEPT ![t].pc = "infer"]
    /\ UNCHANGED <<runVars, scorerVars, auxVars>>

\* The inference of select_best_svg: the branch is chosen by the requested
\* name, the model is the one the generator holds now; the calls of one
\* variant fail on the model of the other, and handler() returns that
\* exception as success False.
ConcInference(t) ==
    /\ thr[t].pc = "infer"
    /\ thr' = [thr EXCEPT ![t].scored_with = generator.reward_model,
                          ![t].success = generator.reward_model = Weights(thr[t].reward_model),
                          ![t].pc = "done"]
    /\ UNCHANGED <<generator, runVars, scorerVars, auxVars>>

\* handler() returns.
ConcReturn(t) ==
    /\ thr[t].pc = "done"
    /\ thr' = [thr EXCEPT ![t] = IdleThread]
    /\ UNCHANGED <<generator, runVars, scorerVars, auxVars>>

NextConc ==
    \/ \E t \in Threads, model \in Models, name \in ValidRewardNames : ConcStart(t, model, name)
    \/ \E t \in Threads : ConcSend(t)
    \/ \E t \in Threads : ConcInitializeRewardModel(t)
    \/ \E t \in Threads : ConcInference(t)
    \/ \E t \in Threads : ConcReturn(t)

SpecConc == Init /\ [][NextConc]_vars

(***************************************************************************)
(* Runs of the three entry points side by side.  What a run is given: its  *)
(* configuration and the responses of the session (each send returns or    *)
(* raises) and of the renderer (each candidate renders or not).  What it   *)
(* does: the tasks it sends with their reference images, the images it     *)
(* hands to the scorer, the scorer's response and the index selected.      *)
(* The previous finished run is kept for comparison with the next.         *)
(***************************************************************************)
EquivRefineIters == {0, 1}
EquivRequests ==
    [entry : Entries, target : Targets, refine_iter : EquivRefineIters,
     reward_model : ValidRewardNames, model : {DefaultModel}, has_prompt : {TRUE},
     prompts_file : {DefaultPromptsFile}]

Given ==
    [target |-> cfg.target, refine_iter |-> cfg.refine_iter, model |-> cfg.model,
     reward_model |-> cfg.reward_model, prompts_file |-> cfg.prompts_file,
     sent_ok |-> [k \in 1..Len(calls) |-> calls[k].ok],
     rendered |-> [k \in 1..Len(cands) |-> cands[k].rendered]]
Observed ==
    [entry |-> cfg.entry, given |-> Given,
     tasks |-> [k \in 1..Len(calls) |-> <<calls[k].task, calls[k].images>>],
     images |-> scored.images, response |-> scored.output, best |-> scored.best]

Remember ==
    /\ pc \in {"done", "failed"}
    /\ prev # Observed
    /\ prev' = Observed
    /\ UNCHANGED <<runVars, scorerVars, concVars, fn_input, fn_output>>

NextEquiv ==
    \/ \E c \in EquivRequests : StartMain(c)
    \/ \E c \in EquivRequests : StartLib(c)
    \/ \E c \in EquivRequests : StartHandler(c)
    \/ ExpandTextPrompt
    \/ WriteSvgCode
    \/ SvgRefine
    \/ SaveCandidate
    \/ SelectBestSvg
    \/ GenerateSvgSelect
    \/ Remember

SpecEquiv == Init /\ [][NextEquiv]_vars

(***************************************************************************)
(* Runs through the serverless handler whose events name a prompts file as *)
(* well as a model.                                                        *)
(***************************************************************************)
SessionRequests ==
    [entry : {"handler"}, target : Targets, refine_iter : EquivRefineIters,
     reward_model : ValidRewardNames, model : Models, has_prompt : {TRUE},
     prompts_file : PromptsFiles]

NextSession ==
    \/ \E c \in SessionRequests : StartHandler(c)
    \/ ExpandTextPrompt
    \/ WriteSvgCode
    \/ SvgRefine
    \/ SaveCandidate
    \/ GenerateSvgSelect

SpecSession == Init /\ [][NextSession]_vars

(***************************************************************************)
(* sorted(glob("<png_dir>/*.png")) on its own, for runs of up to           *)
(* MaxOrderIndex refinements into a fresh directory: no entry point limits *)
(* refine_iter (validate_input, which nothing calls, would allow 10).      *)
(***************************************************************************)
OrderInputs ==
    UNION {[kind : {"png_dir"}, target : Targets, refine_iter : {n},
            rendered : SUBSET (0..n)] : n \in 0..MaxOrderIndex}

\* The PNG files of a fresh png_dir after a run whose candidates R rendered.
GlobRun(t, R) == {<<t, k>> : k \in R}

InitOrder ==
    /\ InitProcess
    /\ fn_input \in OrderInputs
    /\ fn_output = NoOutput

ListPngFiles ==
    /\ fn_input.kind = "png_dir"
    /\ ~fn_output.done
    /\ fn_output' = [done |-> TRUE,
                     png_files |-> Sorted(GlobRun(fn_input.target, fn_input.rendered))]
    /\ UNCHANGED <<fn_input, prev, runVars, scorerVars, concVars>>

NextOrder == ListPngFiles

SpecOrder == InitOrder /\ [][NextOrder]_vars

(***************************************************************************)
(* RunPodConfig.validate_input on its own.  A value of the job input is a  *)
(* kind ("missing" when the key is absent, else the Python type), a text   *)
(* (character codes, for strings) and a number (for int, bool and float).  *)
(***************************************************************************)
DEFAULT_REWARD_MODEL == "ImageReward"
DEFAULT_VIEWBOX == 512
DEFAULT_REFINE_ITER == 2
MAX_REFINE_ITER == 10

Value(kind, text, num) == [kind |-> kind, text |-> text, num |-> num]
Missing == Value("missing", <<>>, 0)
StrV(text) == Value("str", text, 0)
IntV(n) == Value("int", <<>>, n)

PromptValues ==
    {Missing, StrV(<<>>), StrV(<<32>>), StrV(<<9, 32>>), StrV(<<65>>), StrV(<<32, 65, 32>>),
     Value("NoneType", <<>>, 0), IntV(7)}
RewardValues == {"missing", "ImageReward", "CLIP", "Invalid"}
ViewboxValues ==
    {Missing, IntV(512), IntV(1), IntV(0), IntV(0 - 1), StrV(<<53, 49, 50>>),
     Value("float", <<>>, 512), Value("bool", <<>>, 1)}
RefineValues ==
    {Missing, IntV(0 - 1), IntV(0), IntV(2), IntV(10), IntV(11), StrV(<<50>>),
     Value("float", <<>>, 2), Value("bool", <<>>, 0)}
JobInputs ==
    [kind : {"job_input"}, prompt : PromptValues, reward_model : RewardValues,
     viewbox : ViewboxValues, refine_iter : RefineValues]

\* str.strip(): leading and trailing whitespace removed.
Whitespace == {9, 10, 11, 12, 13, 32}
RECURSIVE LStrip(_)
LStrip(t) == IF t # <<>> /\ Head(t) \in Whitespace THEN LStrip(Tail(t)) ELSE t
RECURSIVE RStrip(_)
RStrip(t) ==
    IF t # <<>> /\ t[Len(t)] \in Whitespace THEN RStrip(SubSeq(t, 1, Len(t) - 1)) ELSE t
Strip(t) == RStrip(LStrip(t))

\* job_input.get(key, default) and isinstance(v, int) (bool is an int).
Get(v, default) == IF v.kind = "missing" THEN default ELSE v
IsInt(v) == v.kind \in {"int", "bool"}

Returns(ok, msg) == [done |-> TRUE, raised |-> FALSE, ok |-> ok, msg |-> msg]
Raises(err) == [done |-> TRUE, raised |-> TRUE, ok |-> FALSE, msg |-> err]

validate_input(job) ==
    LET reward     == IF job.reward_model = "missing" THEN DEFAULT_REWARD_MODEL
                      ELSE job.reward_model
        viewbox == Get(job.viewbox, IntV(DEFAULT_VIEWBOX))
        refine_iter == Get(job.refine_iter, IntV(DEFAULT_REFINE_ITER))
    IN
    IF job.prompt.kind = "missing"
    THEN Returns(FALSE, "Missing required parameter: prompt")
    ELSE IF job.prompt.kind # "str"
    THEN Raises("AttributeError: no attribute 'strip'")
    ELSE IF Strip(job.prompt.text) = <<>>
    THEN Returns(FALSE, "Parameter 'prompt' cannot be empty")
    ELSE IF reward \notin {"ImageReward", "CLIP"}
    THEN Returns(FALSE, "Invalid reward_model")
    ELSE IF ~IsInt(viewbox) \/ viewbox.num <= 0
    THEN Returns(FALSE, "Invalid viewbox")
    ELSE IF ~IsInt(refine_iter) \/ refine_iter.num < 0
    THEN Returns(FALSE, "Invalid refine_iter")
    ELSE IF refine_iter.num > MAX_REFINE_ITER
    THEN Returns(FALSE, "refine_iter too high")
    ELSE Returns(TRUE, "")

InitValidate ==
    /\ InitProcess
    /\ fn_input \in JobInputs
    /\ fn_output = NoOutput

ValidateInput ==
    /\ fn_input.kind = "job_input"
    /\ ~fn_output.done
    /\ fn_output' = validate_input(fn_input)
    /\ UNCHANGED <<fn_input, prev, runVars, scorerVars, concVars>>

NextValidate == ValidateInput

SpecValidate == InitValidate /\ [][NextValidate]_vars

(***************************************************************************)
(* Properties.                                                             *)
(***************************************************************************)
CodeTasks == {"write_svg_code", "svg_refine"}
RefineNo(k) == Cardinality({j \in 1..k : calls[j].task = "svg_refine"})
TaskCount(task) == Cardinality({j \in 1..Len(calls) : calls[j].task = task})
Succeeded == pc = "done" /\ result.status = "success"
RunDir == IF cfg.entry = "handler" THEN tmp ELSE out

C3_ExpandOnceAndFirst ==
    /\ TaskCount("expand_text_prompt") <= 1
    /\ calls # <<>> =>
          calls[1].task = "expand_text_prompt" /\ calls[1].images = <<>>
    /\ \A k \in 1..Len(calls) : calls[k].task \in CodeTasks => k > 1 /\ calls[1].ok
    /\ pc \in {"generate", "store", "refine", "select", "done"} =>
          TaskCount("expand_text_prompt") = 1

C3_Witness ==
    /\ Succeeded
    /\ TaskCount("expand_text_prompt") = 1
    /\ TaskCount("write_svg_code") = 1
    /\ TaskCount("svg_refine") = 2

\* C4: the selected best_index is never the index of a candidate whose
\* render failed: the scorer's position is mapped back to the index of the
\* rendered candidate it stands for.
C4_NeverSelectsUnrendered ==
    (Succeeded /\ cfg.refine_iter >= 0) =>
        \A k \in 1..Len(cands) :
            cands[k].index = result.best_index => cands[k].rendered

\* C5: a run in which no candidate rendered ends in failure: it selects no
\* index, reports no best_index and writes no canonical output.
C5_NoRenderIsScoringError ==
    (/\ pc \in {"done", "failed"}
     /\ cfg.refine_iter >= 0
     /\ Len(cands) = cfg.refine_iter + 1
     /\ \A k \in 1..Len(cands) : ~cands[k].rendered
     /\ cfg.reward_model \in {"ImageReward", "CLIP"}) =>
        /\ result.status = "failed"
        /\ result.best_index = 0 - 1
        /\ ~result.wrote_template

\* C6: a run that completes successfully reports 0 <= best_index <= refine_iter.
C6_BestIndexInRange ==
    (Succeeded /\ cfg.refine_iter >= 0) =>
        (0 <= result.best_index /\ result.best_index <= cfg.refine_iter)

\* C7: when a run completes, the canonical output is the code of this run's
\* candidate best_index, and the returned render is that candidate's render.
C7_CanonicalIsBestCandidate ==
    (Succeeded /\ cfg.refine_iter >= 0) =>
        /\ \E k \in 1..Len(cands) : cands[k].index = result.best_index
        /\ cfg.entry \in {"main", "lib"} =>
              out.template[cfg.target] = [gen |-> "cur", idx |-> result.best_index]
        /\ cfg.entry = "handler" =>
              /\ result.best_svg = [gen |-> "cur", idx |-> result.best_index]
              /\ result.best_png = [gen |-> "cur", idx |-> result.best_index]

\* C8: with the rank-based variant (ImageReward), for every ordering the
\* ranking model returns over the supplied images, best_index is the first
\* element of that 1-based ordering minus 1.
C8_RankBasedBestIndex ==
    (scored.called /\ scored.variant = "ImageReward" /\ scored.images # <<>>) =>
        /\ Len(scored.output) = Len(scored.images)
        /\ scored.best = scored.output[1] - 1
        /\ Succeeded => result.best_index = scored.output[1] - 1

C8_Witness ==
    /\ Succeeded
    /\ scored.variant = "ImageReward"
    /\ scored.output = <<2, 1, 3>>
    /\ result.best_index = 1

\* C9: with the similarity-based variant (CLIP), best_index is the position
\* of the maximum similarity among the supplied images, and the lowest such
\* position when several images tie for the maximum; it is determined by the
\* similarities alone.
C9_SimilarityBestIndex ==
    (scored.called /\ scored.variant = "CLIP" /\ scored.images # <<>>) =>
        LET sim == scored.output
            p == scored.best + 1
        IN  /\ Len(sim) = Len(scored.images)
            /\ p \in 1..Len(sim)
            /\ \A q \in 1..Len(sim) : sim[q] <= sim[p]
            /\ \A q \in 1..(p - 1) : sim[q] < sim[p]
            /\ Succeeded => result.best_index = p - 1

C9_Witness ==
    /\ Succeeded
    /\ scored.variant = "CLIP"
    /\ scored.output = <<1, 2, 2>>
    /\ result.best_index = 1

\* C10: once a language-model call of a run has failed (expand, generate or
\* refine i), the run is FAILED and stays so: the call is the last session
\* call of the run, no candidate is stored after it, the scorer is not
\* invoked, no canonical output is written and no best_index is reported.
C10_UpstreamFailureIsFinal ==
    \A k \in 1..Len(calls) :
        ~calls[k].ok =>
            /\ k = Len(calls)
            /\ pc = "failed"
            /\ result.status = "failed"
            /\ result.error = "UpstreamError"
            /\ Len(cands) = calls[k].stored
            /\ ~scored.called
            /\ ~result.wrote_template
            /\ result.best_index = 0 - 1
            /\ out.template[cfg.target].gen # "cur"

C10_Witness ==
    /\ Len(calls) = 4
    /\ calls[4].task = "svg_refine"
    /\ ~calls[4].ok
    /\ pc = "failed"
    /\ Len(cands) = 2

\* The names of the renders this run produced, in candidate-index order.
RECURSIVE RenderedNames(_)
RenderedNames(cs) ==
    IF cs = <<>> THEN <<>>
    ELSE (IF Head(cs).rendered THEN <<<<cfg.target, Head(cs).index>>>> ELSE <<>>)
         \o RenderedNames(Tail(cs))

\* C11: a rendering failure of candidate i does not abort the run: the
\* candidate stays stored, the remaining rounds execute, all refine_iter + 1
\* candidates are produced, and selection runs over exactly the candidates
\* of the run that did render.
C11_RenderFailureNotFatal ==
    /\ (cands # <<>> /\ \A k \in 1..Len(calls) : calls[k].ok) =>
          pc \in {"store", "refine", "select", "done", "failed", "stalled"}
    /\ (scored.called /\ cfg.refine_iter >= 0) =>
          /\ Len(cands) = cfg.refine_iter + 1
          /\ scored.images = RenderedNames(cands)

\* C12: a request with a negative refine_iter or an unknown scorer name is
\* rejected before any external call: no task is sent, nothing is saved or
\* rendered and the scorer is not invoked.
C12_InvalidConfigRejectedEarly ==
    (cfg.refine_iter < 0 \/ cfg.reward_model \notin {"ImageReward", "CLIP"}) =>
        /\ calls = <<>>
        /\ cands = <<>>
        /\ ~scored.called

\* C16: a run through SVGGenerator reuses the generator's session exactly
\* when one exists whose model is the requested model, creates a new session
\* for the requested model otherwise, and sends every task on a session of
\* the requested model.
HandlerRunStarts == Idle /\ pc' = "expand" /\ cfg'.entry = "handler"
C16_SessionReusedIffSameModel ==
    /\ [][HandlerRunStarts =>
             IF session # NoSession /\ session.model = cfg'.model
             THEN session' = [session EXCEPT !.gen = "old"]
             ELSE session' = NewSession(cfg'.model, cfg'.prompts_file)]_vars
    /\ [](cfg.entry = "handler" =>
             \A k \in 1..Len(calls) :
                 /\ calls[k].model = cfg.model
                 /\ calls[k].gen = session.gen
                 /\ session.model = cfg.model)

C16_Witness ==
    /\ cfg.entry = "handler"
    /\ cfg.model # DefaultModel
    /\ Len(calls) >= 2
    /\ calls[2].gen = "old"
    /\ calls[2].model = cfg.model

\* C20: the handler always ends by returning a response whose success field
\* is a boolean; an event without a prompt is answered success = False with
\* an error message, no session created and no task sent; an exception
\* raised while generating or scoring is answered success = False with the
\* error text.
C20_HandlerAlwaysReturns ==
    (cfg.entry = "handler" /\ pc \in {"done", "failed"}) =>
        /\ result.returned
        /\ result.status \in {"success", "failed"}
        /\ (pc = "failed") = (result.status = "failed")
        /\ result.status = "failed" => result.error # "none"
        /\ ~cfg.has_prompt =>
              /\ result.status = "failed"
              /\ result.error = "Missing required parameter: prompt"
              /\ calls = <<>>
              /\ session.gen # "cur"
        /\ (\E k \in 1..Len(calls) : ~calls[k].ok) =>
              /\ result.status = "failed"
              /\ result.error = "UpstreamError"
        /\ result.status = "success" =>
              /\ scored.called
              /\ \A k \in 1..Len(calls) : calls[k].ok

C20_Witness ==
    /\ cfg.entry = "handler"
    /\ pc = "failed"
    /\ result.returned
    /\ result.error \in {"UpstreamError", "FileNotFoundError", "No PNG files found for ranking"}
    /\ session.gen = "old"

\* C19: a run never waits forever on an external call: when a call does not
\* answer, the run can still take a step (the timeout that fails it with an
\* "upstream timeout" error).
C19_StalledCallTimesOut ==
    pc = "stalled" => ENABLED <<Next>>_vars

\* C13: the scorer fails fast when invoked with a name other than
\* "ImageReward" or "CLIP": it loads no model and returns no index, through
\* SVGGenerator as well as through main and the library.
C13_UnknownVariantFailsFast ==
    \A k \in 1..Len(invoked) :
        invoked[k].name \notin ValidRewardNames =>
            /\ ~invoked[k].loaded
            /\ invoked[k].used = 0
            /\ invoked[k].outcome = "error"

\* C14: over any sequence of scoring invocations in one process each variant
\* name is loaded at most once.
C14_EachVariantLoadedOnce ==
    \A a, b \in 1..Len(loads) : a # b => loads[a].name # loads[b].name

\* C15: in SVGGenerator an invocation with the name of the last successful
\* invocation performs no load and scores with the instance that invocation
\* left; a load is performed only when no model is held or the name differs
\* from the last one.
GeneratorCalls ==
    {k \in 1..Len(invoked) :
        invoked[k].by \in {"initialize_reward_model", "SVGGenerator.select_best_svg"}}
Initialized(k) == {j \in GeneratorCalls : j < k /\ ~invoked[j].raised}
Last(k) == CHOOSE j \in Initialized(k) : \A l \in Initialized(k) : l <= j
C15_SameNameReusesModel ==
    \A k \in GeneratorCalls :
        LET same == Initialized(k) # {} /\ invoked[Last(k)].name = invoked[k].name IN
        /\ same => /\ ~invoked[k].loaded
                   /\ ~invoked[k].raised
                   /\ invoked[k].holds = invoked[Last(k)].holds
                   /\ invoked[k].outcome = "index" => invoked[k].used = invoked[Last(k)].holds
        /\ ~same => invoked[k].loaded \/ invoked[k].raised
        /\ invoked[k].loaded =>
              /\ invoked[k].holds \in 1..Len(loads)
              /\ loads[invoked[k].holds].name = invoked[k].name
              /\ \A j \in 1..(k - 1) : invoked[j].holds # invoked[k].holds

C15_Witness ==
    /\ Len(invoked) = 3
    /\ invoked[1].by = "SVGGenerator.select_best_svg" /\ invoked[1].loaded
    /\ invoked[2].by = "TemplateGenerator._select_best_svg" /\ invoked[2].loaded
    /\ invoked[3].by = "SVGGenerator.select_best_svg"
    /\ invoked[3].name = invoked[1].name
    /\ ~invoked[3].loaded
    /\ invoked[3].outcome = "index"
    /\ invoked[3].used = 1

\* C17: two runs that execute concurrently through the handler never send
\* on the same session instance.
Running(t) == thr[t].pc # "idle"
C17_ConcurrentRunsOwnSession ==
    \A t, u \in Threads :
        (t # u /\ Running(t) /\ Running(u)) => thr[t].sent \cap thr[u].sent = {}

\* C18: under any interleaving of concurrent runs the model a run scores
\* with is the model of the variant that run requested (which serialized
\* scoring, initialize_reward_model plus inference without another run's
\* in between, would give).
C18_ScoresWithRequestedVariant ==
    \A t \in Threads :
        thr[t].pc = "done" => thr[t].scored_with = Weights(thr[t].reward_model)

\* C21: the image sequence handed to the scorer lists the rendered
\* candidates in candidate-index order, for every refine_iter: position k
\* holds the k-th rendered candidate by index.
C21_ImagesInIndexOrder ==
    fn_output.done =>
        /\ Len(fn_output.png_files) = Cardinality(fn_input.rendered)
        /\ \A a, b \in 1..Len(fn_output.png_files) :
              a < b => fn_output.png_files[a][2] < fn_output.png_files[b][2]

\* C22: the images scored in a run are exactly the renders that run
\* produced; no render left in the folder by an earlier run is part of the
\* scorer's input.
OwnRenders == {<<cfg.target, cands[j].index>> : j \in {k \in 1..Len(cands) : cands[k].rendered}}
ScoredImages == {scored.images[k] : k \in 1..Len(scored.images)}
C22_ScoresOnlyOwnRenders ==
    (scored.called /\ cfg.refine_iter >= 0) => ScoredImages = OwnRenders

\* C23: the iteration count of the result summary (total_iterations of the
\* library, total_generated of the handler) is the number of candidates the
\* run generated, i.e. of write_svg_code plus svg_refine calls made, for
\* every refine_iter the entry point accepts.
C23_IterationCountIsCandidates ==
    (Succeeded /\ cfg.entry \in {"lib", "handler"}) =>
        /\ result.total = TaskCount("write_svg_code") + TaskCount("svg_refine")
        /\ result.total = Len(cands)

\* C24: validate_input returns (True, "") exactly when the prompt is present
\* and not blank, reward_model (default ImageReward) is ImageReward or CLIP,
\* viewbox (default 512) is a positive integer and refine_iter (default 2)
\* is an integer in 0..10; otherwise it returns (False, message) with the
\* message of the first failing check, in the order prompt missing, prompt
\* empty, reward_model, viewbox, refine_iter negative, refine_iter above 10.
PromptGiven == fn_input.prompt.kind # "missing"
PromptBlank == fn_input.prompt.kind = "str" /\ Strip(fn_input.prompt.text) = <<>>
RewardOk == fn_input.reward_model \in {"missing", "ImageReward", "CLIP"}
ViewboxOk ==
    \/ fn_input.viewbox.kind = "missing"
    \/ fn_input.viewbox.kind \in {"int", "bool"} /\ fn_input.viewbox.num > 0
RefineIsNatural ==
    \/ fn_input.refine_iter.kind = "missing"
    \/ fn_input.refine_iter.kind \in {"int", "bool"} /\ fn_input.refine_iter.num >= 0
RefineAtMost10 == fn_input.refine_iter.kind = "missing" \/ fn_input.refine_iter.num <= 10
FirstFailingCheck ==
    IF ~PromptGiven THEN "Missing required parameter: prompt"
    ELSE IF PromptBlank THEN "Parameter 'prompt' cannot be empty"
    ELSE IF ~RewardOk THEN "Invalid reward_model"
    ELSE IF ~ViewboxOk THEN "Invalid viewbox"
    ELSE IF ~RefineIsNatural THEN "Invalid refine_iter"
    ELSE IF ~RefineAtMost10 THEN "refine_iter too high"
    ELSE ""
C24_ValidateInputVerdict ==
    fn_output.done =>
        /\ ~fn_output.raised
        /\ fn_output.ok = (FirstFailingCheck = "")
        /\ fn_output.msg = FirstFailingCheck

\* C25: two runs through different entry points that are given the same
\* configuration and the same responses of the session and the renderer
\* send the same tasks with the same reference images and score the same
\* image sequence, and for the same response of the scorer select the same
\* best_index.
C25_EntryPointsEquivalent ==
    (/\ pc \in {"done", "failed"}
     /\ prev.entry \notin {"none", cfg.entry}
     /\ prev.given = Given) =>
        /\ prev.tasks = Observed.tasks
        /\ prev.images = scored.images
        /\ prev.response = scored.output => prev.best = scored.best

\* C26: after initialize_session(model, prompts_file) the session the run
\* sends on was constructed with the requested prompts_file as well as the
\* requested model, whatever runs came before.
C26_SessionHasRequestedPrompts ==
    (cfg.entry = "handler" /\ pc \notin {"idle", "failed"}) =>
        /\ session.model = cfg.model
        /\ session.prompts_file = cfg.prompts_file

\* C27: in SVGGenerator, after any sequence of initialize_reward_model calls
\* (loads that raise included), reward_model_name is None exactly when
\* reward_model is None, and otherwise it is the name passed to the call
\* that loaded the model held; a call whose load raises leaves both fields
\* unchanged.
LoadRaisedStep ==
    /\ Len(invoked') = Len(invoked) + 1
    /\ invoked'[Len(invoked')].raised
C27_NameIsNameOfHeldModel ==
    /\ [](/\ (reward_model_name = "none") = (reward_model = 0)
          /\ reward_model # 0 =>
                /\ reward_model \in 1..Len(loads)
                /\ loads[reward_model].by = "SVGGenerator"
                /\ loads[reward_model].name = reward_model_name)
    /\ [][LoadRaisedStep =>
             /\ reward_model' = reward_model
             /\ reward_model_name' = reward_model_name
             /\ loads' = loads]_vars

C27_Witness ==
    /\ Len(invoked) = 3
    /\ invoked[1].by = "initialize_reward_model" /\ invoked[1].raised
    /\ invoked[2].by = "initialize_reward_model" /\ invoked[2].loaded
    /\ invoked[3].by = "initialize_reward_model" /\ invoked[3].raised
    /\ invoked[3].name # invoked[2].name
    /\ reward_model = 1
    /\ reward_model_name = invoked[2].name

====
